---- MODULE Spec2Model ----
(***************************************************************************)
(* DPLL-Seq: a sequential DPLL satisfiability search.                      *)
(*                                                                         *)
(* The model follows src/src/lib.rs and src/src/main.rs: a parsed CNF      *)
(* formula, the assignment table (HashMap<i32, Option<bool>>), the one-shot*)
(* pure-literal pass, the explicit work stack (tasklist) and one step per  *)
(* call of build_search_tree.  Spec is a whole run of main; SpecFn applies *)
(* simplify_formula to arbitrary formula/assignment pairs.                 *)
(***************************************************************************)
EXTENDS Integers, Sequences, FiniteSets

VARIABLES pc, formula, assignment, simplified_formula, resimplified,
          tasklist, node, flag, solution, unsat_printed, calls, evals,
          history, outcome

vars == <<pc, formula, assignment, simplified_formula, resimplified,
          tasklist, node, flag, solution, unsat_printed, calls, evals,
          history, outcome>>

(***************************************************************************)
(* Bounds of the inputs.                                                   *)
(***************************************************************************)
\* variables of the enumerated formulas of a run are 1..MaxVar
MaxVar == 3
\* integer tokens of the enumerated formulas of a run (literals plus one
\* terminating 0 per clause, as in the DIMACS body)
MaxTokens == 5
\* the same two bounds for the inputs of SpecFn
FnMaxVar == 2
FnMaxTokens == 5
\* calls of add_task and get_task in SpecStack
MaxOps == 6
\* the two bounds of the formulas for the nodes of SpecCheck
CheckMaxVar == 2
CheckMaxTokens == 4

(***************************************************************************)
(* Option<bool> and HashMap.                                               *)
(***************************************************************************)
NoneV == "None"
SomeTrue == "Some(true)"
SomeFalse == "Some(false)"
\* what HashMap::get gives for a key the map does not hold
Absent == "absent"

Some(b) == IF b THEN SomeTrue ELSE SomeFalse

EmptyMap == [k \in {} |-> NoneV]

Get(map, k) == IF k \in DOMAIN map THEN map[k] ELSE Absent

Insert(map, k, v) == [x \in (DOMAIN map) \cup {k} |-> IF x = k THEN v ELSE map[x]]

Remove(map, k) == [x \in (DOMAIN map) \ {k} |-> map[x]]

Abs(lit) == IF lit < 0 THEN -lit ELSE lit

(***************************************************************************)
(* Formulas: what read_cnf_file hands to the solver.                       *)
(***************************************************************************)
Literals(n) == {l \in (-n)..n : l # 0}

\* the formulas of at most t tokens over the variables 1..n: a first clause of
\* k literals and its terminating 0, then a formula of at most t - k - 1 tokens
RECURSIVE FormulasWithin(_, _)
FormulasWithin(t, n) ==
    IF t < 1 THEN {<<>>}
    ELSE {<<>>} \cup
         UNION {{<<c>> \o f : c \in [1..k -> Literals(n)],
                              f \in FormulasWithin(t - k - 1, n)} :
                    k \in 0..(t - 1)}

\* the formulas of the repository's tests and of the specification's examples
PureExample == <<<<1, 2>>, <<2, 3>>, <<-4, -2, 3>>, <<-1, -2, 3>>, <<-4, 2, 3>>>>
SatExample == <<<<1, 2, 3>>, <<-1, -2>>, <<-3, 4>>>>
OppositeExample == <<<<1, 2>>, <<-1, -2>>>>
UnsatExample == <<<<1>>, <<-1>>>>
\* every sign pattern over two variables: unsatisfiable, two decision levels
Unsat2Example == <<<<1, 2>>, <<1, -2>>, <<-1, 2>>, <<-1, -2>>>>
\* every sign pattern over three variables: unsatisfiable, three levels
Unsat3Example ==
    <<<<1, 2, 3>>, <<1, 2, -3>>, <<1, -2, 3>>, <<1, -2, -3>>,
      <<-1, 2, 3>>, <<-1, 2, -3>>, <<-1, -2, 3>>, <<-1, -2, -3>>>>
\* every formula of two binary clauses over the variables 1 and 2
BinaryPairs == {<<c, d>> : c, d \in [1..2 -> Literals(2)]}

ExampleFormulas ==
    {PureExample, SatExample, OppositeExample, UnsatExample, Unsat2Example,
     Unsat3Example} \cup BinaryPairs

(***************************************************************************)
(* initial_assignment                                                      *)
(***************************************************************************)
\* initial_assignment keyed by the literal instead of its magnitude
RECURSIVE ia_clause_signed(_, _, _)
ia_clause_signed(clause, i, acc) ==
    IF i > Len(clause) THEN acc
    ELSE LET key == clause[i]
         IN  ia_clause_signed(clause, i + 1,
                 IF key \notin DOMAIN acc THEN Insert(acc, key, NoneV) ELSE acc)

RECURSIVE ia_clause(_, _, _)
ia_clause(clause, i, acc) ==
    IF i > Len(clause) THEN acc
    ELSE LET key == Abs(clause[i])
         IN  ia_clause(clause, i + 1,
                       IF key \notin DOMAIN acc THEN Insert(acc, key, NoneV) ELSE acc)

RECURSIVE ia_formula(_, _, _)
ia_formula(f, j, acc) ==
    IF j > Len(f) THEN acc
    ELSE ia_formula(f, j + 1, ia_clause(f[j], 1, acc))

initial_assignment(f) == ia_formula(f, 1, EmptyMap)

(***************************************************************************)
(* simplify_formula                                                        *)
(***************************************************************************)
\* the inner loop looking a negative literal up without lit.abs()
RECURSIVE clause_satisfied_noabs(_, _, _)
clause_satisfied_noabs(clause, i, a) ==
    IF i > Len(clause) THEN FALSE
    ELSE LET lit == clause[i]
         IN  IF lit > 0
             THEN IF Get(a, lit) = SomeTrue THEN TRUE
                  ELSE clause_satisfied_noabs(clause, i + 1, a)
             ELSE IF Get(a, lit) = SomeFalse THEN TRUE
                  ELSE clause_satisfied_noabs(clause, i + 1, a)

\* the inner loop: TRUE when it breaks with satisfied = true
RECURSIVE clause_satisfied(_, _, _)
clause_satisfied(clause, i, a) ==
    IF i > Len(clause) THEN FALSE
    ELSE LET lit == clause[i]
         IN  IF lit > 0
             THEN IF Get(a, lit) = SomeTrue THEN TRUE
                  ELSE clause_satisfied(clause, i + 1, a)
             ELSE IF Get(a, Abs(lit)) = SomeFalse THEN TRUE
                  ELSE clause_satisfied(clause, i + 1, a)

\* a kept clause loses its first falsified literal
strip_falsified(clause, a) ==
    LET falsified == {i \in 1..Len(clause) :
                         \/ clause[i] > 0 /\ Get(a, clause[i]) = SomeFalse
                         \/ clause[i] < 0 /\ Get(a, -clause[i]) = SomeTrue}
    IN  IF falsified = {} THEN clause
        ELSE LET m == CHOOSE i \in falsified : \A h \in falsified : i <= h
             IN  SubSeq(clause, 1, m - 1) \o SubSeq(clause, m + 1, Len(clause))

RECURSIVE sf_loop_strip(_, _, _, _)
sf_loop_strip(f, j, a, new_formula) ==
    IF j > Len(f) THEN new_formula
    ELSE sf_loop_strip(f, j + 1, a,
                 IF ~clause_satisfied(f[j], 1, a)
                 THEN Append(new_formula, strip_falsified(f[j], a))
                 ELSE new_formula)

RECURSIVE sf_loop(_, _, _, _)
sf_loop(f, j, a, new_formula) ==
    IF j > Len(f) THEN new_formula
    ELSE sf_loop(f, j + 1, a,
                 IF ~clause_satisfied(f[j], 1, a)
                 THEN Append(new_formula, f[j])
                 ELSE new_formula)

simplify_formula(f, a) == sf_loop(f, 1, a, <<>>)

(***************************************************************************)
(* pure_literal_elimination                                                *)
(***************************************************************************)
\* the scan without removed_literals: an evicted variable is admitted again
ple_lit_unsticky(st, lit) ==
    LET key == Abs(lit)
        pure == st.pure_literals
    IN  IF key \notin DOMAIN pure /\ (-key) \notin DOMAIN pure
        THEN [st EXCEPT !.pure_literals = Insert(pure, lit, lit > 0)]
        ELSE IF (-lit) \in DOMAIN pure
             THEN [st EXCEPT !.pure_literals = Remove(pure, -lit)]
             ELSE st

\* one literal of the scan; st = [pure_literals, removed_literals]
ple_lit(st, lit) ==
    LET key == Abs(lit)
        pure == st.pure_literals
        removed == st.removed_literals
    IN  IF key \notin DOMAIN removed /\ (-key) \notin DOMAIN removed
        THEN IF key \notin DOMAIN pure /\ (-key) \notin DOMAIN pure
             THEN [st EXCEPT !.pure_literals = Insert(pure, lit, lit > 0)]
             ELSE IF (-lit) \in DOMAIN pure
                  THEN [pure_literals |-> Remove(pure, -lit),
                        removed_literals |->
                            Insert(Insert(removed, key, FALSE), -key, FALSE)]
                  ELSE st
        ELSE st

RECURSIVE ple_clause(_, _, _)
ple_clause(clause, i, st) ==
    IF i > Len(clause) THEN st
    ELSE ple_clause(clause, i + 1, ple_lit(st, clause[i]))

RECURSIVE ple_scan(_, _, _)
ple_scan(f, j, st) ==
    IF j > Len(f) THEN st
    ELSE ple_scan(f, j + 1, ple_clause(f[j], 1, st))

\* "Assign values to pure literals".  The scan never holds a literal and its
\* negation in pure_literals at once, so the iteration order of the map does
\* not matter and each key receives the value of its one literal.
ple_assign(pure, a) ==
    LET keys == {Abs(l) : l \in DOMAIN pure}
    IN  [k \in (DOMAIN a) \cup keys |->
            IF k \in keys
            THEN Some(pure[CHOOSE l \in DOMAIN pure : Abs(l) = k])
            ELSE a[k]]

\* the updated assignment (the &mut parameter) and the returned formula
pure_literal_elimination(f, a) ==
    LET st == ple_scan(f, 1, [pure_literals |-> EmptyMap,
                              removed_literals |-> EmptyMap])
        updated == ple_assign(st.pure_literals, a)
    IN  [assignment |-> updated, new_formula |-> simplify_formula(f, updated)]

(***************************************************************************)
(* Node and false_check                                                    *)
(***************************************************************************)
Node(f, value, variable, a) ==
    [formula |-> f, value |-> value, variable |-> variable, assignment |-> a]

NoNode == Node(<<>>, NoneV, 0, EmptyMap)

\* the negative branch testing the decided value with the sign of the
\* positive branch
fc_lit_sign(n, lit) ==
    IF lit > 0
    THEN IF lit = n.variable
         THEN IF n.value = SomeTrue THEN "true" ELSE "false"
         ELSE IF Get(n.assignment, lit) = NoneV THEN "skip"
         ELSE IF Get(n.assignment, lit) = SomeTrue THEN "true"
         ELSE IF Get(n.assignment, lit) = SomeFalse THEN "false"
         ELSE "none"
    ELSE IF lit = -n.variable
         THEN IF n.value = SomeTrue THEN "true" ELSE "false"
         ELSE IF Get(n.assignment, Abs(lit)) = NoneV THEN "skip"
         ELSE IF Get(n.assignment, Abs(lit)) = SomeFalse THEN "true"
         ELSE IF Get(n.assignment, Abs(lit)) = SomeTrue THEN "false"
         ELSE "none"

\* one literal of the inner loop: "true" (true_flag, break), "false"
\* (false_num += 1), "skip" (continue) or "none" (no branch taken)
fc_lit(n, lit) ==
    IF lit > 0
    THEN IF lit = n.variable
         THEN IF n.value = SomeTrue THEN "true" ELSE "false"
         ELSE IF Get(n.assignment, lit) = NoneV THEN "skip"
         ELSE IF Get(n.assignment, lit) = SomeTrue THEN "true"
         ELSE IF Get(n.assignment, lit) = SomeFalse THEN "false"
         ELSE "none"
    ELSE IF lit = -n.variable
         THEN IF n.value = SomeFalse THEN "true" ELSE "false"
         ELSE IF Get(n.assignment, Abs(lit)) = NoneV THEN "skip"
         ELSE IF Get(n.assignment, Abs(lit)) = SomeFalse THEN "true"
         ELSE IF Get(n.assignment, Abs(lit)) = SomeTrue THEN "false"
         ELSE "none"

\* lit_num counted at the end of the loop body, where continue and break
\* do not reach it
RECURSIVE fc_clause_late_count(_, _, _, _, _)
fc_clause_late_count(n, clause, i, false_num, lit_num) ==
    IF i > Len(clause)
    THEN [false_num |-> false_num, lit_num |-> lit_num, true_flag |-> FALSE]
    ELSE LET r == fc_lit(n, clause[i])
         IN  IF r = "true"
             THEN [false_num |-> false_num, lit_num |-> lit_num,
                   true_flag |-> TRUE]
             ELSE fc_clause_late_count(n, clause, i + 1,
                            IF r = "false" THEN false_num + 1 ELSE false_num,
                            IF r = "skip" THEN lit_num ELSE lit_num + 1)

RECURSIVE fc_clause(_, _, _, _, _)
fc_clause(n, clause, i, false_num, lit_num) ==
    IF i > Len(clause)
    THEN [false_num |-> false_num, lit_num |-> lit_num, true_flag |-> FALSE]
    ELSE LET r == fc_lit(n, clause[i])
         IN  IF r = "true"
             THEN [false_num |-> false_num, lit_num |-> lit_num + 1,
                   true_flag |-> TRUE]
             ELSE fc_clause(n, clause, i + 1,
                            IF r = "false" THEN false_num + 1 ELSE false_num,
                            lit_num + 1)

\* the conflict test written with > for ==
RECURSIVE fc_formula_gt(_, _, _)
fc_formula_gt(n, j, true_num) ==
    IF j > Len(n.formula)
    THEN IF true_num = Len(n.formula) THEN 2 ELSE 1
    ELSE LET c == fc_clause(n, n.formula[j], 1, 0, 0)
         IN  IF c.false_num > c.lit_num THEN 0
             ELSE fc_formula_gt(n, j + 1,
                                IF c.true_flag THEN true_num + 1 ELSE true_num)

RECURSIVE fc_formula(_, _, _)
fc_formula(n, j, true_num) ==
    IF j > Len(n.formula)
    THEN IF true_num = Len(n.formula) THEN 2 ELSE 1
    ELSE LET c == fc_clause(n, n.formula[j], 1, 0, 0)
         IN  IF c.false_num = c.lit_num THEN 0
             ELSE fc_formula(n, j + 1,
                             IF c.true_flag THEN true_num + 1 ELSE true_num)

false_check(n) == fc_formula(n, 1, 0)

(***************************************************************************)
(* add_task, get_task, get_assignment_keys                                 *)
(***************************************************************************)
\* the node put under the other nodes
add_task_front(n, list) == <<n>> \o list

add_task(n, list) == Append(list, n)

\* the oldest node taken instead of the newest
get_task_fifo(list) ==
    IF list = <<>>
    THEN [found |-> FALSE, node |-> NoNode, tasklist |-> list]
    ELSE [found |-> TRUE, node |-> list[1],
          tasklist |-> SubSeq(list, 2, Len(list))]

\* Vec::pop: Some(the last node) and the rest, or None (found = FALSE) and
\* the list as it was
get_task(list) ==
    IF list = <<>>
    THEN [found |-> FALSE, node |-> NoNode, tasklist |-> list]
    ELSE [found |-> TRUE, node |-> list[Len(list)],
          tasklist |-> SubSeq(list, 1, Len(list) - 1)]

\* the log of the calls on the work stack: what was pushed, what a pop gave
Added(n) == [op |-> "add", found |-> TRUE, node |-> n]
Got(r) == [op |-> "get", found |-> r.found, node |-> r.node]

\* a descending sort
RECURSIVE sort_unstable_desc(_)
sort_unstable_desc(S) ==
    IF S = {} THEN <<>>
    ELSE LET m == CHOOSE x \in S : \A y \in S : x >= y
         IN  <<m>> \o sort_unstable_desc(S \ {m})

RECURSIVE sort_unstable(_)
sort_unstable(S) ==
    IF S = {} THEN <<>>
    ELSE LET m == CHOOSE x \in S : \A y \in S : x <= y
         IN  <<m>> \o sort_unstable(S \ {m})

\* the keys without the filter on Unknown
get_assignment_keys_all(a) == sort_unstable(DOMAIN a)

get_assignment_keys(a) == sort_unstable({k \in DOMAIN a : a[k] = NoneV})

(***************************************************************************)
(* build_search_tree: the pieces of its branches                           *)
(***************************************************************************)
\* the solution without the defaulting of the Unknown entries
solution_of_undefaulted(n) == Insert(n.assignment, n.variable, n.value)

\* lines 252-258: the printed solution
solution_of(n) ==
    LET inserted == Insert(n.assignment, n.variable, n.value)
    IN  [k \in DOMAIN inserted |->
            IF inserted[k] = NoneV THEN SomeTrue ELSE inserted[k]]

\* new_assignment without the insertion of the decision
commit_dropped(n) == n.assignment

\* new_assignment with Some(true) whatever the node's value
commit_true(n) == Insert(n.assignment, n.variable, SomeTrue)

\* lines 268-269: new_assignment
commit(n) == Insert(n.assignment, n.variable, n.value)

NoSolution == "no solution"

\* no call of false_check has been recorded
NoOutcome == -1

(***************************************************************************)
(* A run of main                                                           *)
(***************************************************************************)
Init ==
    /\ formula \in FormulasWithin(MaxTokens, MaxVar) \cup ExampleFormulas
    /\ pc = "parsed"
    /\ assignment = EmptyMap
    /\ simplified_formula = <<>>
    /\ resimplified = <<>>
    /\ tasklist = <<>>
    /\ node = NoNode
    /\ flag = FALSE
    /\ solution = NoSolution
    /\ unsat_printed = FALSE
    /\ calls = 0
    /\ evals = 0
    /\ history = <<>>
    /\ outcome = NoOutcome

\* main, line 11
InitialAssignment ==
    /\ pc = "parsed"
    /\ assignment' = initial_assignment(formula)
    /\ pc' = "assigned"
    /\ UNCHANGED <<formula, simplified_formula, resimplified, tasklist, node, flag, solution,
                   unsat_printed, calls, evals, history, outcome>>

\* main, line 16
PureLiteralElimination ==
    /\ pc = "assigned"
    /\ LET r == pure_literal_elimination(formula, assignment)
       IN  /\ assignment' = r.assignment
           /\ simplified_formula' = r.new_formula
    /\ pc' = "preprocessed"
    /\ UNCHANGED <<formula, resimplified, tasklist, node, flag, solution, unsat_printed,
                   calls, evals, history, outcome>>

\* main, lines 17-25
PushRoot ==
    /\ pc = "preprocessed"
    /\ tasklist' = Append(<<>>, Node(simplified_formula, NoneV, 0, assignment))
    /\ history' = Append(history,
                         Added(Node(simplified_formula, NoneV, 0, assignment)))
    /\ flag' = FALSE
    /\ pc' = "loop"
    /\ UNCHANGED <<formula, assignment, simplified_formula, resimplified, node, solution,
                   unsat_printed, calls, evals, outcome>>

\* main, lines 26-28: the loop condition holds, a node is popped and passed
\* to build_search_tree
GetTask ==
    /\ pc = "loop"
    /\ tasklist # <<>>
    /\ LET r == get_task(tasklist)
       IN  /\ node' = r.node
           /\ tasklist' = r.tasklist
           /\ history' = Append(history, Got(r))
    /\ pc' = "call"
    /\ UNCHANGED <<formula, assignment, simplified_formula, resimplified, flag, solution,
                   unsat_printed, calls, evals, outcome>>

\* main, lines 26 and 34-36: the loop ends with the list empty
Unsatisfied ==
    /\ pc = "loop"
    /\ tasklist = <<>>
    /\ unsat_printed' = ~flag
    /\ pc' = "done"
    /\ UNCHANGED <<formula, assignment, simplified_formula, resimplified, tasklist, node,
                   flag, solution, calls, evals, history, outcome>>

\* build_search_tree, lines 233-248; indexing an empty unassigned_var panics
ExpandRoot ==
    /\ pc = "call"
    /\ node.variable = 0
    /\ calls' = calls + 1
    /\ LET unassigned_var == get_assignment_keys(node.assignment)
       IN  IF unassigned_var = <<>>
           THEN /\ pc' = "abort"
                /\ UNCHANGED <<tasklist, node, history>>
           ELSE LET node_t == Node(node.formula, SomeTrue, unassigned_var[1],
                                   node.assignment)
                    node_f == Node(node.formula, SomeFalse, unassigned_var[1],
                                   node.assignment)
                IN  /\ tasklist' = add_task(node_f, tasklist)
                    /\ history' = Append(history, Added(node_f))
                    /\ node' = node_t
                    /\ pc' = "call"
    /\ UNCHANGED <<formula, assignment, simplified_formula, resimplified, flag, solution,
                   unsat_printed, evals, outcome>>

\* build_search_tree, lines 249-250: return false to the loop of main
ExpandConflict ==
    /\ pc = "call"
    /\ node.variable # 0
    /\ false_check(node) = 0
    /\ calls' = calls + 1
    /\ evals' = evals + 1
    /\ outcome' = false_check(node)
    /\ pc' = "loop"
    /\ UNCHANGED <<formula, assignment, simplified_formula, resimplified, tasklist, node,
                   flag, solution, unsat_printed, history>>

\* the loop of main going on after build_search_tree returned true
ExpandSolution_nobreak ==
    /\ pc = "call"
    /\ node.variable # 0
    /\ false_check(node) # 0
    /\ false_check(node) = 2
    /\ calls' = calls + 1
    /\ evals' = evals + 2
    /\ outcome' = false_check(node)
    /\ solution' = solution_of(node)
    /\ flag' = TRUE
    /\ pc' = "loop"
    /\ UNCHANGED <<formula, assignment, simplified_formula, resimplified, tasklist, node,
                   unsat_printed, history>>

\* build_search_tree, lines 251-263, and main, lines 29-36: return true,
\* flag = true, break
ExpandSolution ==
    /\ pc = "call"
    /\ node.variable # 0
    /\ false_check(node) # 0
    /\ false_check(node) = 2
    /\ calls' = calls + 1
    /\ evals' = evals + 2
    /\ outcome' = false_check(node)
    /\ solution' = solution_of(node)
    /\ flag' = TRUE
    /\ pc' = "done"
    /\ UNCHANGED <<formula, assignment, simplified_formula, resimplified, tasklist, node,
                   unsat_printed, history>>

\* the formula simplified against the node's own assignment (the line left
\* commented out at line 265) instead of new_assignment
ExpandUndetermined_stale ==
    /\ pc = "call"
    /\ node.variable # 0
    /\ false_check(node) # 0
    /\ false_check(node) # 2
    /\ calls' = calls + 1
    /\ evals' = evals + 2
    /\ outcome' = false_check(node)
    /\ LET new_assignment == commit(node)
           new_formula == simplify_formula(node.formula, node.assignment)
           unassigned_var == get_assignment_keys(new_assignment)
       IN  IF unassigned_var = <<>>
           THEN /\ pc' = "abort"
                /\ UNCHANGED <<tasklist, node, history>>
           ELSE LET node_t == Node(new_formula, SomeTrue, unassigned_var[1],
                                   new_assignment)
                    node_f == Node(new_formula, SomeFalse, unassigned_var[1],
                                   new_assignment)
                IN  /\ tasklist' = add_task(node_f, tasklist)
                    /\ history' = Append(history, Added(node_f))
                    /\ node' = node_t
                    /\ pc' = "call"
    /\ UNCHANGED <<formula, assignment, simplified_formula, resimplified, flag, solution,
                   unsat_printed>>

\* build_search_tree, lines 264-287
ExpandUndetermined ==
    /\ pc = "call"
    /\ node.variable # 0
    /\ false_check(node) # 0
    /\ false_check(node) # 2
    /\ calls' = calls + 1
    /\ evals' = evals + 2
    /\ outcome' = false_check(node)
    /\ LET new_assignment == commit(node)
           new_formula == simplify_formula(node.formula, new_assignment)
           unassigned_var == get_assignment_keys(new_assignment)
       IN  IF unassigned_var = <<>>
           THEN /\ pc' = "abort"
                /\ UNCHANGED <<tasklist, node, history>>
           ELSE LET node_t == Node(new_formula, SomeTrue, unassigned_var[1],
                                   new_assignment)
                    node_f == Node(new_formula, SomeFalse, unassigned_var[1],
                                   new_assignment)
                IN  /\ tasklist' = add_task(node_f, tasklist)
                    /\ history' = Append(history, Added(node_f))
                    /\ node' = node_t
                    /\ pc' = "call"
    /\ UNCHANGED <<formula, assignment, simplified_formula, resimplified, flag, solution,
                   unsat_printed>>

Next ==
    \/ InitialAssignment
    \/ PureLiteralElimination
    \/ PushRoot
    \/ GetTask
    \/ Unsatisfied
    \/ ExpandRoot
    \/ ExpandConflict
    \/ ExpandSolution
    \/ ExpandUndetermined

Spec == Init /\ [][Next]_vars

(***************************************************************************)
(* simplify_formula on its own: any formula, any assignment table          *)
(***************************************************************************)
\* the tables over any set of keys among 1..n
AssignmentsWithin(n) ==
    UNION {[K -> {NoneV, SomeTrue, SomeFalse}] : K \in SUBSET (1..n)}

\* the tables of test_pure_literal_elimination_and_simplify (after the
\* pass) and of test_false_check, over the formula of these tests
TestTables ==
    {[k \in 1..4 |-> IF k = 3 THEN SomeTrue ELSE IF k = 4 THEN SomeFalse ELSE NoneV],
     [k \in 1..4 |-> IF k = 1 THEN NoneV ELSE IF k = 2 THEN SomeTrue ELSE SomeFalse]}

InitFn ==
    /\ \/ /\ formula \in FormulasWithin(FnMaxTokens, FnMaxVar)
          /\ assignment \in AssignmentsWithin(FnMaxVar)
       \/ /\ formula = PureExample
          /\ assignment \in TestTables
    /\ pc = "fn"
    /\ simplified_formula = <<>>
    /\ resimplified = <<>>
    /\ tasklist = <<>>
    /\ node = NoNode
    /\ flag = FALSE
    /\ solution = NoSolution
    /\ unsat_printed = FALSE
    /\ calls = 0
    /\ evals = 0
    /\ history = <<>>
    /\ outcome = NoOutcome

\* simplify_formula(&formula, &assignment)
Simplify ==
    /\ pc = "fn"
    /\ simplified_formula' = simplify_formula(formula, assignment)
    /\ pc' = "simplified"
    /\ UNCHANGED <<formula, assignment, resimplified, tasklist, node, flag,
                   solution, unsat_printed, calls, evals, history, outcome>>

\* simplify_formula applied to its own result, under the same assignment
SimplifyAgain ==
    /\ pc = "simplified"
    /\ resimplified' = simplify_formula(simplified_formula, assignment)
    /\ pc' = "resimplified"
    /\ UNCHANGED <<formula, assignment, simplified_formula, tasklist, node,
                   flag, solution, unsat_printed, calls, evals, history, outcome>>

NextFn == Simplify \/ SimplifyAgain

SpecFn == InitFn /\ [][NextFn]_vars

(***************************************************************************)
(* The work stack on its own: any sequence of add_task and get_task        *)
(***************************************************************************)
InitStack ==
    /\ pc = "stack"
    /\ tasklist = <<>>
    /\ history = <<>>
    /\ node = NoNode
    /\ formula = <<>>
    /\ assignment = EmptyMap
    /\ simplified_formula = <<>>
    /\ resimplified = <<>>
    /\ flag = FALSE
    /\ solution = NoSolution
    /\ unsat_printed = FALSE
    /\ calls = 0
    /\ evals = 0
    /\ outcome = NoOutcome

\* add_task(node, &mut tasklist); every Rc<Node> is an allocation of its own,
\* which the model tells apart by numbering the nodes in the variable field
AddTask ==
    /\ pc \in {"stack", "got"}
    /\ Len(history) < MaxOps
    /\ \E value \in {NoneV, SomeTrue, SomeFalse} :
           LET serial == Cardinality({j \in 1..Len(history) :
                                        history[j].op = "add"}) + 1
               n == Node(<<>>, value, serial, EmptyMap)
           IN  /\ tasklist' = add_task(n, tasklist)
               /\ history' = Append(history, Added(n))
    /\ pc' = "stack"
    /\ UNCHANGED <<formula, assignment, simplified_formula, resimplified, node,
                   flag, solution, unsat_printed, calls, evals, outcome>>

\* get_task(&mut tasklist), on an empty list too
TakeTask ==
    /\ pc \in {"stack", "got"}
    /\ Len(history) < MaxOps
    /\ LET r == get_task(tasklist)
       IN  /\ node' = r.node
           /\ tasklist' = r.tasklist
           /\ history' = Append(history, Got(r))
    /\ pc' = "got"
    /\ UNCHANGED <<formula, assignment, simplified_formula, resimplified, flag,
                   solution, unsat_printed, calls, evals, outcome>>

NextStack == AddTask \/ TakeTask

SpecStack == InitStack /\ [][NextStack]_vars

(***************************************************************************)
(* false_check on its own: any non-root node                               *)
(***************************************************************************)
\* the node of test_false_check
TestNode ==
    Node(PureExample, SomeFalse, 1,
         [k \in 1..4 |-> IF k = 1 THEN NoneV
                         ELSE IF k = 2 THEN SomeTrue ELSE SomeFalse])

InitCheck ==
    /\ \/ \E f \in FormulasWithin(CheckMaxTokens, CheckMaxVar) :
              \E b \in {SomeTrue, SomeFalse} :
                  \E v \in 1..CheckMaxVar :
                      \E a \in AssignmentsWithin(CheckMaxVar) :
                          node = Node(f, b, v, a)
       \/ node = TestNode
    /\ pc = "node"
    /\ outcome = NoOutcome
    /\ tasklist = <<>>
    /\ history = <<>>
    /\ formula = <<>>
    /\ assignment = EmptyMap
    /\ simplified_formula = <<>>
    /\ resimplified = <<>>
    /\ flag = FALSE
    /\ solution = NoSolution
    /\ unsat_printed = FALSE
    /\ calls = 0
    /\ evals = 0

\* false_check(&node)
FalseCheck ==
    /\ pc = "node"
    /\ outcome' = false_check(node)
    /\ pc' = "checked"
    /\ UNCHANGED <<formula, assignment, simplified_formula, resimplified,
                   tasklist, node, flag, solution, unsat_printed, calls, evals,
                   history>>

NextCheck == FalseCheck

SpecCheck == InitCheck /\ [][NextCheck]_vars

(***************************************************************************)
(* The vocabulary of the properties                                        *)
(***************************************************************************)
\* the variables occurring in a formula
VarsOf(f) == UNION {{Abs(f[j][i]) : i \in 1..Len(f[j])} : j \in 1..Len(f)}

\* the literals occurring in a formula
LitsOf(f) == UNION {{f[j][i] : i \in 1..Len(f[j])} : j \in 1..Len(f)}

\* a literal is true under a table: positive with its variable True, or
\* negative with its variable False
LitTrueUnder(lit, a) ==
    \/ lit > 0 /\ Get(a, lit) = SomeTrue
    \/ lit < 0 /\ Get(a, -lit) = SomeFalse

LitFalseUnder(lit, a) ==
    \/ lit > 0 /\ Get(a, lit) = SomeFalse
    \/ lit < 0 /\ Get(a, -lit) = SomeTrue

ClauseTrueUnder(clause, a) ==
    \E i \in 1..Len(clause) : LitTrueUnder(clause[i], a)

\* the clauses of f with no literal true under a, in the order of f
Unsatisfied_clauses(f, a) ==
    LET keep(clause) == ~ClauseTrueUnder(clause, a)
    IN  SelectSeq(f, keep)

UnknownsOf(a) == {k \in DOMAIN a : a[k] = NoneV}

\* truth-table enumeration: T is the set of the variables made true
BruteForceSat(f) ==
    \E T \in SUBSET VarsOf(f) :
        \A j \in 1..Len(f) :
            \E i \in 1..Len(f[j]) :
                \/ f[j][i] > 0 /\ f[j][i] \in T
                \/ f[j][i] < 0 /\ (-f[j][i]) \notin T

Verdict ==
    IF pc = "abort" THEN "ABORT"
    ELSE IF pc # "done" THEN "RUNNING"
    ELSE IF flag THEN "SATISFIABLE"
    ELSE "UNSATISFIABLE"

Preprocessed == pc \in {"preprocessed", "loop", "call", "done", "abort"}

RECURSIVE Pow2(_)
Pow2(n) == IF n = 0 THEN 1 ELSE 2 * Pow2(n - 1)

(***************************************************************************)
(* C1.  Soundness: whenever the run reports SATISFIABLE, every clause of   *)
(* the original formula (before the pure-literal pass) has a literal that  *)
(* is true under the printed assignment.                                   *)
(***************************************************************************)
C1_Soundness ==
    flag => \A j \in 1..Len(formula) : ClauseTrueUnder(formula[j], solution)

\* a solution found for a formula the pure-literal pass has shortened, with
\* an alternative still pending on the stack
C1_Witness ==
    /\ pc = "done"
    /\ flag
    /\ simplified_formula # <<>>
    /\ Len(simplified_formula) < Len(formula)
    /\ tasklist # <<>>

(***************************************************************************)
(* C2.  Completeness: every run ends with the verdict of truth-table       *)
(* enumeration: SATISFIABLE iff some total assignment satisfies every      *)
(* clause, UNSATISFIABLE otherwise; [[1],[-1]] is UNSATISFIABLE and        *)
(* [[1,2],[-1,-2]] is SATISFIABLE with 1 and 2 holding opposite values.    *)
(***************************************************************************)
C2_Completeness ==
    /\ pc \in {"done", "abort"} =>
           Verdict = IF BruteForceSat(formula) THEN "SATISFIABLE"
                     ELSE "UNSATISFIABLE"
    /\ pc \in {"done", "abort"} /\ formula = UnsatExample =>
           Verdict = "UNSATISFIABLE"
    /\ pc \in {"done", "abort"} /\ formula = OppositeExample =>
           Verdict = "SATISFIABLE" /\ solution[1] # solution[2]

\* what does hold: a run that ends without a panic has the verdict of the
\* truth table
VerdictOfCompletedRun ==
    pc = "done" =>
        Verdict = IF BruteForceSat(formula) THEN "SATISFIABLE"
                  ELSE "UNSATISFIABLE"

(***************************************************************************)
(* C3.  Every run ends in SATISFIABLE or UNSATISFIABLE; there is no abort  *)
(* during preprocessing or search, whatever the formula (the empty         *)
(* formula, an empty clause, no variable left Unknown by the pure-literal  *)
(* pass).                                                                  *)
(***************************************************************************)
C3_NoAbort == pc # "abort"

(***************************************************************************)
(* C4.  A SATISFIABLE result carries a complete assignment: one entry per  *)
(* variable of the original formula (no table of the run ever loses an     *)
(* entry), each entry True or False, and every variable Unknown at the     *)
(* solution node, other than the decided one, set to True.                 *)
(***************************************************************************)
C4_CompleteAssignment ==
    /\ pc # "parsed" => DOMAIN assignment = VarsOf(formula)
    /\ \A t \in 1..Len(tasklist) :
           DOMAIN tasklist[t].assignment = VarsOf(formula)
    /\ pc = "call" => DOMAIN node.assignment = VarsOf(formula)
    /\ flag =>
           /\ DOMAIN solution = VarsOf(formula)
           /\ \A k \in DOMAIN solution : solution[k] \in {SomeTrue, SomeFalse}
           /\ \A k \in UnknownsOf(node.assignment) :
                  k # node.variable => solution[k] = SomeTrue
           /\ solution[node.variable] = node.value

\* a solution at a node with a variable still Unknown besides the decided one
C4_Witness ==
    /\ pc = "done"
    /\ flag
    /\ \E k \in UnknownsOf(node.assignment) : k # node.variable

(***************************************************************************)
(* C5.  The pure-literal pass, on a formula and its all-Unknown table,     *)
(* sets a variable True iff all its occurrences are positive, False iff    *)
(* all are negative, and leaves a variable of both polarities Unknown,     *)
(* whatever the order of the occurrences; the formula it returns is the    *)
(* original one without the clauses the updated table satisfies.  For the  *)
(* formula of the test: 3 True, 4 False, 1 and 2 Unknown, and [[1,2]].     *)
(***************************************************************************)
C5_PureLiteralElimination ==
    Preprocessed =>
        /\ DOMAIN assignment = VarsOf(formula)
        /\ \A v \in VarsOf(formula) :
               /\ assignment[v] = SomeTrue <=> (-v) \notin LitsOf(formula)
               /\ assignment[v] = SomeFalse <=> v \notin LitsOf(formula)
               /\ v \in LitsOf(formula) /\ (-v) \in LitsOf(formula)
                      => assignment[v] = NoneV
        /\ simplified_formula = Unsatisfied_clauses(formula, assignment)
        /\ formula = PureExample =>
               /\ assignment[3] = SomeTrue
               /\ assignment[4] = SomeFalse
               /\ assignment[1] = NoneV
               /\ assignment[2] = NoneV
               /\ simplified_formula = <<<<1, 2>>>>

\* the pass has run on the formula of the test, where variable 2 occurs
\* again after both polarities have been seen
C5_Witness == pc = "preprocessed" /\ formula = PureExample

(***************************************************************************)
(* C6.  simplify drops a clause iff one of its literals is true under the  *)
(* table (positive with its variable True, negative with its variable      *)
(* False); every other clause is kept with all its literals, the falsified *)
(* ones included, and the kept clauses keep their order.                   *)
(***************************************************************************)
C6_Simplify ==
    pc \in {"simplified", "resimplified"} =>
        /\ simplified_formula = Unsatisfied_clauses(formula, assignment)
        /\ Len(simplified_formula) =
               Cardinality({j \in 1..Len(formula) :
                               ~ClauseTrueUnder(formula[j], assignment)})
        /\ \A j \in 1..Len(simplified_formula) :
               \E i \in j..Len(formula) : formula[i] = simplified_formula[j]

\* a clause was dropped, and a kept clause still holds a falsified literal
C6_Witness ==
    /\ pc = "simplified"
    /\ Len(simplified_formula) < Len(formula)
    /\ \E j \in 1..Len(simplified_formula) :
           \E i \in 1..Len(simplified_formula[j]) :
               LitFalseUnder(simplified_formula[j][i], assignment)

C8_Expansions2k ==
    Preprocessed => calls <= Pow2(Cardinality(UnknownsOf(assignment)))

\* C8 as amended: the expansions of a run never exceed 2^(k+1) - 1 (the
\* root and a binary tree of k decision levels)
C8_ExpansionsTree ==
    Preprocessed => calls <= Pow2(Cardinality(UnknownsOf(assignment)) + 1) - 1

\* a run that expands the whole tree of two or more decision levels
C8_Witness ==
    /\ pc = "done"
    /\ Cardinality(UnknownsOf(assignment)) >= 2
    /\ calls = Pow2(Cardinality(UnknownsOf(assignment)) + 1) - 1

(***************************************************************************)
(* C9.  Idempotence: simplifying the result of simplify(F, A) again under  *)
(* A gives the same formula.                                               *)
(***************************************************************************)
C9_Idempotence == pc = "resimplified" => resimplified = simplified_formula

\* a second simplification of a formula that lost a clause in the first and
\* kept a clause with a falsified literal
C9_Witness ==
    /\ pc = "resimplified"
    /\ simplified_formula # <<>>
    /\ Len(simplified_formula) < Len(formula)
    /\ \E j \in 1..Len(simplified_formula) :
           \E i \in 1..Len(simplified_formula[j]) :
               LitFalseUnder(simplified_formula[j][i], assignment)

(***************************************************************************)
(* C10.  initial_assignment gives a table whose keys are exactly the       *)
(* variables occurring in the formula, one entry each however often and in *)
(* whichever polarity they occur, every entry Unknown; the order of the    *)
(* clauses and of the literals does not change the table.                  *)
(***************************************************************************)
Reversed(seq) == [i \in 1..Len(seq) |-> seq[Len(seq) + 1 - i]]

PendingBefore(h, i) ==
    {j \in 1..(i - 1) :
        /\ h[j].op = "add"
        /\ ~\E k \in (j + 1)..(i - 1) :
               h[k].op = "get" /\ h[k].found /\ h[k].node = h[j].node}

Latest(P) == CHOOSE j \in P : \A x \in P : x <= j

C11_Lifo ==
    /\ \A i \in 1..Len(history) :
           history[i].op = "get" =>
               LET P == PendingBefore(history, i)
               IN  IF P = {} THEN ~history[i].found
                   ELSE /\ history[i].found
                        /\ history[i].node = history[Latest(P)].node
    /\ LET P == PendingBefore(history, Len(history) + 1)
       IN  /\ Len(tasklist) = Cardinality(P)
           /\ \A j \in P :
                  tasklist[Cardinality({x \in P : x <= j})] = history[j].node

\* a get_task that returned a node while an older node stays on the stack,
\* after an earlier get_task that found the stack empty
C11_Witness ==
    /\ pc = "got"
    /\ history # <<>>
    /\ history[Len(history)].found
    /\ node = history[Len(history)].node
    /\ tasklist # <<>>
    /\ \E k \in 1..(Len(history) - 1) :
           history[k].op = "get" /\ ~history[k].found

(***************************************************************************)
(* C12.  false_check of a non-root node (v, b, F, A) classifies F against  *)
(* A with v set to b: 0 (CONFLICT) iff some clause of F has every literal  *)
(* falsified (an empty clause counts), else 2 (SOLUTION) iff every clause  *)
(* has a true literal, else 1 (UNDETERMINED); a clause with a literal      *)
(* whose variable is Unknown, other than v, never causes CONFLICT.         *)
(***************************************************************************)
\* the table the node stands for: its own with the decision written in
Hypothetical(n) == Insert(n.assignment, n.variable, n.value)

ClauseFalsifiedUnder(clause, a) ==
    \A i \in 1..Len(clause) : LitFalseUnder(clause[i], a)

\* the clause has a literal of an Unknown variable other than the decided one
HasUnknownLiteral(clause, n) ==
    \E i \in 1..Len(clause) :
        /\ Abs(clause[i]) # n.variable
        /\ Get(n.assignment, Abs(clause[i])) = NoneV

C12_FalseCheck ==
    pc = "checked" =>
        /\ outcome =
               IF \E j \in 1..Len(node.formula) :
                      ClauseFalsifiedUnder(node.formula[j], Hypothetical(node))
               THEN 0
               ELSE IF \A j \in 1..Len(node.formula) :
                           ClauseTrueUnder(node.formula[j], Hypothetical(node))
                    THEN 2
                    ELSE 1
        /\ (\A j \in 1..Len(node.formula) :
                HasUnknownLiteral(node.formula[j], node)) => outcome # 0
        /\ node = TestNode => outcome = 2

\* an UNDETERMINED node with a clause holding a falsified literal next to a
\* literal of an Unknown variable
C12_Witness ==
    /\ pc = "checked"
    /\ outcome = 1
    /\ \E j \in 1..Len(node.formula) :
           /\ HasUnknownLiteral(node.formula[j], node)
           /\ \E i \in 1..Len(node.formula[j]) :
                  LitFalseUnder(node.formula[j][i], Hypothetical(node))

(***************************************************************************)
(* C13.  Whenever the driver has to choose a decision variable (expanding  *)
(* the root, or after committing an UNDETERMINED node) and no variable is  *)
(* Unknown, it treats the node as solved; it never indexes an empty list   *)
(* of candidates.                                                          *)
(***************************************************************************)
C13_NoEmptyIndex ==
    /\ pc \in {"done", "abort"} /\ UnknownsOf(assignment) = {} =>
           Verdict = "SATISFIABLE"
    /\ pc = "abort" => UnknownsOf(node.assignment) # {}

(***************************************************************************)
(* C14.  Chronological backtracking: an expansion that ends in CONFLICT    *)
(* returns to the loop of main with the stack as it was, and the loop then *)
(* expands the most recently pushed node still pending, a False branch;    *)
(* after an expansion returned SOLUTION nothing is popped or expanded,     *)
(* whatever the stack holds; UNSATISFIED is printed only with the stack    *)
(* empty and no SOLUTION.                                                  *)
(***************************************************************************)
C14_Backtracking ==
    [][/\ ~flag
       /\ pc = "call" /\ node.variable # 0 /\ false_check(node) = 0 =>
              /\ pc' = "loop"
              /\ tasklist' = tasklist
              /\ ~flag'
       /\ pc = "loop" /\ tasklist # <<>> =>
              /\ pc' = "call"
              /\ node' = history[Latest(PendingBefore(history,
                                                      Len(history) + 1))].node
              /\ Len(tasklist') = Len(tasklist) - 1
              /\ calls > 0 => node'.value = SomeFalse
       /\ unsat_printed' =>
              /\ tasklist = <<>>
              /\ ~flag'
              /\ solution' = NoSolution
      ]_vars

\* a False branch popped after a conflict, another one still pending
C14_Witness ==
    /\ pc = "call"
    /\ outcome = 0
    /\ history[Len(history)].op = "get"
    /\ node.value = SomeFalse
    /\ tasklist # <<>>

(***************************************************************************)
(* C15.  In every node of a run (the root, a node on the stack, the node   *)
(* being expanded) the formula is the original formula without the clauses *)
(* the node's own assignment satisfies: no clause of it has a literal true *)
(* under that assignment, every clause of it is an unmodified clause of    *)
(* the original, and no unsatisfied original clause is missing.            *)
(***************************************************************************)
C15_NodeFormula ==
    /\ \A t \in 1..Len(tasklist) :
           tasklist[t].formula =
               Unsatisfied_clauses(formula, tasklist[t].assignment)
    /\ node # NoNode =>
           /\ node.formula = Unsatisfied_clauses(formula, node.assignment)
           /\ \A j \in 1..Len(node.formula) :
                  /\ ~ClauseTrueUnder(node.formula[j], node.assignment)
                  /\ \E i \in 1..Len(formula) : formula[i] = node.formula[j]

\* a node below the first decision level whose formula lost clauses during
\* the search and still has some
C15_Witness ==
    /\ pc = "call"
    /\ node.variable # 0
    /\ node.formula # <<>>
    /\ Len(node.formula) < Len(simplified_formula)

(***************************************************************************)
(* C16.  Monotonicity: the children built from an UNDETERMINED node N      *)
(* carry N's assignment with N's decision written in: exactly one Unknown  *)
(* variable fewer, every other entry as it was; the children of the root   *)
(* carry the root's formula and assignment unchanged.  The two children of *)
(* a branching carry the same formula and assignment.                      *)
(***************************************************************************)
C16_Monotonicity ==
    [][pc = "call" /\ pc' = "call" =>
           /\ Len(tasklist') = Len(tasklist) + 1
           /\ tasklist'[Len(tasklist')].assignment = node'.assignment
           /\ tasklist'[Len(tasklist')].formula = node'.formula
           /\ IF node.variable = 0
              THEN /\ node'.formula = node.formula
                   /\ node'.assignment = node.assignment
              ELSE /\ DOMAIN node'.assignment = DOMAIN node.assignment
                   /\ node'.assignment[node.variable] = node.value
                   /\ \A k \in DOMAIN node.assignment :
                          k # node.variable =>
                              node'.assignment[k] = node.assignment[k]
                   /\ Cardinality(UnknownsOf(node'.assignment)) =
                          Cardinality(UnknownsOf(node.assignment)) - 1
      ]_vars

\* a child built from an UNDETERMINED False branch
C16_Witness ==
    /\ pc = "call"
    /\ node.variable # 0
    /\ node.value = SomeTrue
    /\ \E k \in DOMAIN node.assignment :
           /\ node.assignment[k] = SomeFalse
           /\ assignment[k] = NoneV

(***************************************************************************)
(* C17.  In every non-root node the driver creates, the decided variable   *)
(* is Unknown in the node's own assignment and the decided value is True   *)
(* or False.                                                               *)
(***************************************************************************)
DecisionOutside(n) ==
    n.variable # 0 =>
        /\ Get(n.assignment, n.variable) = NoneV
        /\ n.value \in {SomeTrue, SomeFalse}

C17_DecidedExcluded ==
    /\ \A t \in 1..Len(tasklist) : DecisionOutside(tasklist[t])
    /\ DecisionOutside(node)

\* a popped False branch below the first decision level, with decided
\* variables in its table and more than one variable still Unknown
C17_Witness ==
    /\ pc = "call"
    /\ node.value = SomeFalse
    /\ Cardinality(UnknownsOf(node.assignment)) >= 2
    /\ \E k \in DOMAIN node.assignment :
           node.assignment[k] # NoneV /\ assignment[k] = NoneV

(***************************************************************************)
(* C18.  Whenever a non-root node of a run evaluates to UNDETERMINED, the  *)
(* committed assignment still has an Unknown variable, one that occurs in  *)
(* a clause the committed assignment leaves unsatisfied; the choice of the *)
(* next decision variable in the UNDETERMINED branch is never made from an *)
(* empty list.                                                             *)
(***************************************************************************)
C18_UndeterminedHasUnknown ==
    /\ pc = "call" /\ node.variable # 0 /\ false_check(node) = 1 =>
           /\ get_assignment_keys(commit(node)) # <<>>
           /\ \E k \in UnknownsOf(Hypothetical(node)) :
                  k \in VarsOf(Unsatisfied_clauses(node.formula,
                                                   Hypothetical(node)))
    /\ pc = "abort" => node.variable = 0

\* an UNDETERMINED node whose commit leaves exactly one variable Unknown
C18_Witness ==
    /\ pc = "call"
    /\ node.variable # 0
    /\ false_check(node) = 1
    /\ Cardinality(UnknownsOf(Hypothetical(node))) = 1

(***************************************************************************)
(* C19.  Once the root has been popped, the work stack holds only False    *)
(* branches, their decision variables strictly increasing from bottom to   *)
(* top (so at most one per variable), and never more than k nodes, k the   *)
(* number of variables Unknown after the pure-literal pass.                *)
(***************************************************************************)
C19_StackShape ==
    pc = "call" \/ calls > 0 =>
        /\ \A t \in 1..Len(tasklist) :
               /\ tasklist[t].variable # 0
               /\ tasklist[t].value = SomeFalse
        /\ \A t \in 1..Len(tasklist) : \A u \in 1..Len(tasklist) :
               t < u => tasklist[t].variable < tasklist[u].variable
        /\ Len(tasklist) <= Cardinality(UnknownsOf(assignment))

\* a stack of k False branches, k at least 2
C19_Witness ==
    /\ pc = "call"
    /\ Len(tasklist) >= 2
    /\ Len(tasklist) = Cardinality(UnknownsOf(assignment))

(***************************************************************************)
(* C20.  The driver evaluates each expanded non-root node exactly once     *)
(* (the outcome is kept, not computed again) and never evaluates the root: *)
(* the calls of false_check number the expansions of non-root nodes.       *)
(***************************************************************************)
C20_EvaluatedOnce == evals = IF calls = 0 THEN 0 ELSE calls - 1

\* what does hold: the root is not evaluated, and no node more than twice
EvaluatedAtMostTwice ==
    /\ calls <= 1 => evals = 0
    /\ calls > 1 => evals <= 2 * (calls - 1)

====
